---- MODULE Spec2Model ----
(***************************************************************************)
(* A model of apps/virtual_thermostat/virtual_thermostat.py: the           *)
(* VirtualThermostat AppDaemon app.  Temperatures are integers in tenths   *)
(* of a degree (17.6 C is 176); times are seconds.                         *)
(***************************************************************************)
EXTENDS Integers, Sequences, FiniteSets, TLC

(***************************************************************************)
(* Program constants                                                       *)
(***************************************************************************)
DEFAULT_MAX_AGE == 30 * 60
\* 0.8 degrees, in tenths
DEFAULT_MAX_INTERVAL == 8
TOPIC_PREFIX == "virtual_thermostat"
\* the length of a day: timedelta.seconds is the remainder modulo one day
SECONDS_PER_DAY == 24 * 60 * 60

(***************************************************************************)
(* Bounds of the model                                                     *)
(***************************************************************************)
\* the sensor ages the aggregation is explored with span this many days
MaxDays == 1
\* the host clock advances in steps of forty minutes, at most this many
\* past a sensor's update
MaxTicks == 1
ClockStep == 40 * 60
MaxElapsed == MaxTicks * ClockStep

(***************************************************************************)
(* Values: a JSON/Python value of the setpoint record is a number or a     *)
(* string; both carry their text, and float() reads the text.              *)
(***************************************************************************)
Num(text) == [t |-> "num", v |-> text]
Str(text) == [t |-> "str", v |-> text]

\* the integer 18
DEFAULT_TARGET_TEMP == Num("18")

\* the texts float() accepts, with their value in tenths of a degree
FloatTable == [x \in {"17.0", "17.6", "18", "18.0", "18.4", "19.0"} |->
                 CASE x = "17.0" -> 170
                   [] x = "17.6" -> 176
                   [] x = "18"   -> 180
                   [] x = "18.0" -> 180
                   [] x = "18.4" -> 184
                   [] x = "19.0" -> 190]

\* float(x) raises ValueError/TypeError when this is false
CanFloat(text) == text \in DOMAIN FloatTable
Float(text) == FloatTable[text]

\* None in a numeric field of the sensor status
None == -1

\* round(x / n, 1) for x in tenths: nearest tenth, ties to even
RoundDiv(x, n) ==
  LET q == x \div n
      r == x % n
  IN  IF 2 * r < n THEN q
      ELSE IF 2 * r > n THEN q + 1
      ELSE IF q % 2 = 0 THEN q ELSE q + 1


(***************************************************************************)
(* Configuration (self.args) and the host's entities                       *)
(***************************************************************************)
\* "entity" and "entity,attribute" sensor references, already split at ","
Ref(e, a) == [entity |-> e, attribute |-> a]

\* self.args with heat_switch and temp_sensor given as lists of strings
Config(switches, sensors) ==
  [name |-> "hall", has_heat_switch |-> TRUE, has_temp_sensor |-> TRUE,
   heat_switch |-> switches, temp_sensor |-> sensors]

\* the configuration the controller is explored with: two actuators driven
\* from one sensor
Configs == { Config(<<"switch.a", "switch.b">>, <<Ref("sensor.a", "None")>>) }

\* the configurations the aggregation is explored with: one, two and three
\* sensors, and two attributes of one entity
AggConfigs ==
  { Config(<<"switch.a">>, <<Ref("sensor.a", "None")>>),
    Config(<<"switch.a">>, <<Ref("sensor.a", "None"), Ref("sensor.b", "temp")>>),
    Config(<<"switch.a">>, <<Ref("sensor.a", "temp"), Ref("sensor.a", "floor")>>),
    Config(<<"switch.a">>, <<Ref("sensor.a", "None"), Ref("sensor.b", "temp"),
                             Ref("sensor.c", "None")>>) }

Range(seq) == {seq[i] : i \in DOMAIN seq}
EntitiesOf(cfg) == {r.entity : r \in Range(cfg.temp_sensor)}

\* what the host returns for a sensor's state or attribute
Readings == {"17.0", "17.6", "18.0", "18.4", "19.0", "unavailable"}

\* JSON text of a value, as its tokens: a string is written between quotes,
\* a number as its digits
Quote == "\""
JsonString(text) == <<Quote, text, Quote>>
JsonNumber(text) == <<text>>

\* the number json.load reads from a number token, as Python prints it
NumberText == [x \in {"18", "18.0", "18.00", "19.0", "1.9e1"} |->
                 CASE x = "18"    -> "18"
                   [] x = "18.0"  -> "18.0"
                   [] x = "18.00" -> "18.0"
                   [] x = "19.0"  -> "19.0"
                   [] x = "1.9e1" -> "19.0"]

\* the persistence file: absent, unreadable, not JSON, or a JSON object
\* (content: key -> the JSON text of its value)
Keys == {"target_temp", "high_temp", "low_temp", "mode"}
NoFields == [k \in {} |-> Str("")]
NoText == [k \in {} |-> JsonString("")]
FirstRun == [kind |-> "missing", content |-> NoText]
HeatFile == [kind |-> "json", content |-> [k \in {"mode"} |-> JsonString("heat")]]
Files == {FirstRun, HeatFile}

\* the files the life cycle is explored with: no permission to read, a
\* truncated file, an empty object, a hand-edited object and a complete one
Unreadable == [kind |-> "unreadable", content |-> NoText]
Truncated == [kind |-> "garbage", content |-> NoText]
EmptyObject == [kind |-> "json", content |-> NoText]
HandEdited ==
  [kind |-> "json",
   content |-> [k \in {"target_temp", "mode"} |->
                  IF k = "mode" THEN JsonString("heat") ELSE JsonNumber("18.00")]]
Complete ==
  [kind |-> "json",
   content |-> [k \in Keys |->
                  CASE k = "target_temp" -> JsonString("19.0")
                    [] k = "high_temp" -> JsonNumber("1.9e1")
                    [] k = "low_temp" -> JsonNumber("18")
                    [] k = "mode" -> JsonString("heat")]]
LifeFiles == {FirstRun, Unreadable, Truncated, EmptyObject, HeatFile,
              HandEdited, Complete}

(***************************************************************************)
(* State                                                                   *)
(***************************************************************************)
VARIABLES
  pc,              \* "new", "running" (initialize returned), "failed" (it raised)
  args,            \* self.args
  file,            \* the persistence file on disk
  data,            \* self.data: the setpoint record
  sensor_data,     \* self.sensor_data
  current_action,  \* self.current_action ("unset" before the first evaluation)
  publish_timer,   \* self.publish_timer: a timer handle, 0 is None
  timers,          \* host: handles of the pending force_eval_and_publish timers
  listen_handlers, \* self.listen_handlers: entity -> attribute listened to
  topic_base,      \* self.topic_base: <<prefix, device>>, or <<>> when unset
  mqtt_listening,  \* host: handle_mqtt_message is registered for MQTT_MESSAGE
  exists,          \* host: the sensor entities that exist
  reading,         \* host: sensor reference -> state text
  elapsed,         \* host: entity -> seconds since its last update
  switch,          \* host: actuator entity -> "on" / "off"
  retry_timers,    \* host: number of pending register_listeners timers
  subscribed,      \* host: the subscription to <topic_base>/# is in place
  faulty,          \* host: the actuators whose service call raises
  last             \* the step just taken: handler, host calls made, outcome

progVars == <<pc, args, file, data, sensor_data, current_action, publish_timer,
              timers, listen_handlers, topic_base, mqtt_listening,
              retry_timers, subscribed>>
hostVars == <<exists, reading, elapsed, switch, faulty>>
vars == <<progVars, hostVars, last>>

radiator_switches == args.heat_switch
temp_sensors == args.temp_sensor
max_age == DEFAULT_MAX_AGE
max_interval == DEFAULT_MAX_INTERVAL

(***************************************************************************)
(* update_sensor_status                                                    *)
(***************************************************************************)
NewStatus(a) ==
  [attribute |-> a, valid |-> TRUE, value |-> None, message |-> "None",
   seconds_since_last_update |-> None]

\* (now - last_updated).seconds: the seconds field of a timedelta
TimedeltaSeconds(delta) == delta % SECONDS_PER_DAY

\* one sensor's status after the body of the loop, for an entity that exists
SensorStatus(ref) ==
  LET seconds == TimedeltaSeconds(elapsed[ref.entity])
      old == seconds > max_age
      text == reading[ref]
  IN  [attribute |-> ref.attribute,
       valid |-> ~old /\ CanFloat(text),
       value |-> IF CanFloat(text) THEN Float(text) ELSE None,
       message |-> IF old THEN "Data to old"
                   ELSE IF CanFloat(text) THEN "None"
                   ELSE "Unable to read sensor state",
       seconds_since_last_update |-> seconds]

MissingStatus(ref) ==
  [NewStatus(ref.attribute) EXCEPT !.valid = FALSE, !.message = "Entity not found"]

StatusOf(ref) ==
  IF ref.entity \in exists THEN SensorStatus(ref) ELSE MissingStatus(ref)

\* the loop over self.temp_sensors: status is keyed by entity, the counter
\* and the sum run over the references
RECURSIVE SensorLoop(_, _, _, _)
SensorLoop(i, status, number_of_valid_sensors, current_temperature) ==
  IF i > Len(temp_sensors)
  THEN [status |-> status, n |-> number_of_valid_sensors,
        sum |-> current_temperature]
  ELSE LET ref == temp_sensors[i]
           st == StatusOf(ref)
           status2 == [e \in DOMAIN status \cup {ref.entity} |->
                         IF e = ref.entity THEN st ELSE status[e]]
       IN  IF st.valid
           THEN SensorLoop(i + 1, status2, number_of_valid_sensors + 1,
                           current_temperature + st.value)
           ELSE SensorLoop(i + 1, status2, number_of_valid_sensors,
                           current_temperature)

NoStatus == [e \in {} |-> NewStatus("None")]

\* self.hass.convert_utc(last_updated_str) raises for a timestamp it cannot
\* read; the call is outside the try block, so the exception leaves
\* update_sensor_status before self.sensor_data is assigned
ConvertRaises ==
  \E ref \in Range(temp_sensors) :
    ref.entity \in exists /\ elapsed[ref.entity] = None

update_sensor_status ==
  LET r == SensorLoop(1, NoStatus, 0, 0)
  IN  [current_temperature |->
         IF r.n > 1 THEN RoundDiv(r.sum, r.n) ELSE r.sum,
       valid_sensors |-> r.n,
       max_age |-> max_age \div 60,
       sensor_data |-> r.status]

(***************************************************************************)
(* evaluate_status, set_radiator_switch, publish_state                     *)
(***************************************************************************)
Call(service, target) == [service |-> service, target |-> target]

\* the position of the first switch whose service call raises, or one past
\* the last switch
FirstFaulty ==
  CHOOSE i \in 1..(Len(radiator_switches) + 1) :
    /\ i <= Len(radiator_switches) => radiator_switches[i] \in faulty
    /\ \A j \in 1..(i - 1) : radiator_switches[j] \notin faulty

\* set_radiator_switch(state): one host call per configured switch, in order;
\* the host applies each call that succeeds, and a call that raises ends the
\* loop (the call is not guarded)
set_radiator_switch(sw, state) ==
  LET stop == FirstFaulty
      done == {radiator_switches[i] : i \in 1..(stop - 1)}
      made == IF stop <= Len(radiator_switches) THEN stop ELSE stop - 1
  IN  [switch |-> [s \in DOMAIN sw |-> IF s \in done THEN state ELSE sw[s]],
       calls |-> [i \in 1..made |->
                    Call("switch/turn_" \o state, radiator_switches[i])],
       raised |-> stop <= Len(radiator_switches)]

lowest_temp(d) == Float(d["target_temp"].v) - max_interval \div 2
highest_temp(d) == Float(d["target_temp"].v) + max_interval \div 2

\* Decide without the dead band: on below the upper limit
Decide_NoBand(current_temp, d) ==
  IF current_temp < highest_temp(d) THEN "on" ELSE "off"

\* Decide with the upper limit exclusive
Decide_StrictHigh(current_temp, d) ==
  IF current_temp < lowest_temp(d) THEN "on"
  ELSE IF current_temp > highest_temp(d) THEN "off"
  ELSE "keep"

\* the actuator command of lines 438-441: "on", "off" or "keep" (no call)
Decide(current_temp, d) ==
  IF current_temp < lowest_temp(d) THEN "on"
  ELSE IF current_temp >= highest_temp(d) THEN "off"
  ELSE "keep"

\* the action label of lines 443-446
ActionLabel(sw) ==
  IF sw[radiator_switches[1]] = "off" THEN "idle" ELSE "heating"

\* ForcedOff without the test for valid sensors
ForcedOff_ModeOnly(d, sd) == d["mode"] = Str("off")

\* the "off" branch of evaluate_status is taken
ForcedOff(d, sd) == d["mode"] = Str("off") \/ sd.valid_sensors = 0

\* evaluate_status with the setpoint d, the switches sw and the action ca:
\* the new sensor_data, switches and action, the host calls made, and
\* whether an exception left the method (convert_utc in update_sensor_status,
\* a service call in set_radiator_switch, or float(target_temp)); what was
\* assigned before the exception stays
evaluate_status(d, sw, ca) ==
  IF ConvertRaises
  THEN [sensor_data |-> sensor_data, switch |-> sw, current_action |-> ca,
        calls |-> <<>>, raised |-> TRUE]
  ELSE
  LET sd == update_sensor_status
  IN  IF ForcedOff(d, sd)
      THEN LET r == set_radiator_switch(sw, "off")
           IN  [sensor_data |-> sd, switch |-> r.switch,
                current_action |-> IF r.raised THEN ca ELSE "off",
                calls |-> r.calls, raised |-> r.raised]
      ELSE IF ~CanFloat(d["target_temp"].v)
      THEN [sensor_data |-> sd, switch |-> sw, current_action |-> ca,
            calls |-> <<>>, raised |-> TRUE]
      ELSE LET cmd == Decide(sd.current_temperature, d)
               r == IF cmd = "keep"
                    THEN [switch |-> sw, calls |-> <<>>, raised |-> FALSE]
                    ELSE set_radiator_switch(sw, cmd)
           IN  [sensor_data |-> sd, switch |-> r.switch,
                current_action |-> IF r.raised THEN ca
                                   ELSE ActionLabel(r.switch),
                calls |-> r.calls, raised |-> r.raised]

\* remove_timer that cancels nothing
remove_timer_Keep(th, pending) == pending

\* remove_timer(th): the host's pending timers afterwards
remove_timer(th, pending) ==
  IF th # 0 /\ th \in pending THEN pending \ {th} ELSE pending

\* the handle run_in returns: one that names no pending timer (the least)
NewHandle(pending) ==
  CHOOSE h \in 1..(Cardinality(pending) + 1) :
    /\ h \notin pending
    /\ \A g \in 1..(h - 1) : g \in pending

\* publish_state: the two publishes, then the watchdog is re-armed
publish_state(pending) ==
  LET kept == remove_timer(publish_timer, pending)
      h == NewHandle(kept)
  IN  [timers |-> kept \cup {h}, publish_timer |-> h,
       calls |-> <<Call("mqtt/publish", "state"),
                   Call("mqtt/publish", "attributes")>>]

\* what a step records about itself
Step(op, calls, evaluations, published, raised) ==
  [op |-> op, calls |-> calls, evaluations |-> evaluations,
   published |-> published, raised |-> raised]

\* evaluate_status (twice when handle_set_temp ran) followed by
\* publish_state, with setpoint d and the host's pending timers
EvalAndPublish(op, d, twice, pending, before) ==
  \E r1 \in {evaluate_status(d, switch, current_action)} :
  \E r \in {IF twice /\ ~r1.raised
            THEN LET r2 == evaluate_status(d, r1.switch, r1.current_action)
                 IN  [r2 EXCEPT !.calls = r1.calls \o r2.calls]
            ELSE r1} :
  \E p \in {publish_state(pending)} :
  LET n == IF twice /\ ~r1.raised THEN 2 ELSE 1
  IN  /\ data' = d
      /\ sensor_data' = r.sensor_data
      /\ switch' = r.switch
      /\ current_action' = r.current_action
      /\ IF r.raised
         THEN /\ timers' = pending
              /\ UNCHANGED publish_timer
              /\ last' = Step(op, before \o r.calls, n, FALSE, TRUE)
         ELSE /\ timers' = p.timers
              /\ publish_timer' = p.publish_timer
              /\ last' = Step(op, before \o r.calls \o p.calls, n, TRUE, FALSE)

(***************************************************************************)
(* Persistence                                                             *)
(***************************************************************************)
DefaultOf(k) == IF k = "mode" THEN Str("off") ELSE DEFAULT_TARGET_TEMP

\* json.load accepts the value: a quoted string or a number
Parseable(tokens) == Head(tokens) = Quote \/ tokens[1] \in DOMAIN NumberText

\* json.load of one value
json_load(tokens) ==
  IF Head(tokens) = Quote THEN Str(tokens[2]) ELSE Num(NumberText[tokens[1]])

\* json.dumps that writes a string without its quotes
json_dumps_Bare(value) == JsonNumber(value.v)

\* json.dumps of one value
json_dumps(value) ==
  IF value.t = "str" THEN JsonString(value.v) ELSE JsonNumber(value.v)

\* load_persistance_file that fills in no default for the mode
load_persistance_file_NoMode(f) ==
  LET loaded == IF f.kind = "json" /\ \A k \in DOMAIN f.content :
                                       Parseable(f.content[k])
                THEN [k \in DOMAIN f.content |-> json_load(f.content[k])]
                ELSE NoFields
  IN  [k \in DOMAIN loaded \cup (Keys \ {"mode"}) |->
         IF k \in DOMAIN loaded THEN loaded[k] ELSE DefaultOf(k)]

\* load_persistance_file: the file's object (an empty one when the file is
\* missing, unreadable or json.load raises), completed with the defaults
load_persistance_file(f) ==
  LET loaded == IF f.kind = "json" /\ \A k \in DOMAIN f.content :
                                       Parseable(f.content[k])
                THEN [k \in DOMAIN f.content |-> json_load(f.content[k])]
                ELSE NoFields
  IN  [k \in DOMAIN loaded \cup Keys |->
         IF k \in DOMAIN loaded THEN loaded[k] ELSE DefaultOf(k)]

\* save_persistance_file: open(.., "w") empties the file and
\* json.dumps(self.data) is written to it
save_persistance_file(d) ==
  [kind |-> "json", content |-> [k \in DOMAIN d |-> json_dumps(d[k])]]

(***************************************************************************)
(* Startup                                                                 *)
(***************************************************************************)
\* the loop of register_listeners over self.temp_sensors
RECURSIVE RegisterLoop(_, _)
RegisterLoop(i, handlers) ==
  IF i > Len(temp_sensors) THEN handlers
  ELSE LET ref == temp_sensors[i]
       IN  IF ref.entity \in DOMAIN handlers \/ ref.entity \notin exists
           THEN RegisterLoop(i + 1, handlers)
           ELSE RegisterLoop(i + 1,
                  [e \in DOMAIN handlers \cup {ref.entity} |->
                     IF e = ref.entity THEN ref.attribute ELSE handlers[e]])

NoHandlers == [e \in {} |-> "None"]

register_listeners(handlers) ==
  IF Cardinality(DOMAIN handlers) = Len(temp_sensors) THEN handlers
  ELSE RegisterLoop(1, handlers)

\* the test that ends register_listeners: run_in(register_listeners, 60)
\* unless there are as many handlers as configured references
RetryNeeded(handlers) == Cardinality(DOMAIN handlers) # Len(temp_sensors)

Init ==
  /\ pc = "new"
  /\ args \in Configs
  /\ file \in Files
  /\ data = NoFields
  /\ sensor_data = [current_temperature |-> 0, valid_sensors |-> 0,
                    max_age |-> 0, sensor_data |-> NoStatus]
  /\ current_action = "unset"
  /\ publish_timer = 0
  /\ timers = {}
  /\ listen_handlers = NoHandlers
  /\ topic_base = <<>>
  /\ mqtt_listening = FALSE
  /\ exists = EntitiesOf(args)
  /\ reading = [r \in Range(args.temp_sensor) |-> "18.0"]
  /\ elapsed = [e \in EntitiesOf(args) |-> 0]
  /\ switch \in [Range(args.heat_switch) -> {"on", "off"}]
  /\ retry_timers = 0
  /\ subscribed = FALSE
  /\ faulty = {}
  /\ last = Step("construct", <<>>, 0, FALSE, FALSE)

\* initialize: load_persistance_file, parse_and_register (register_listeners,
\* discovery publish, subscribe, evaluate_status, publish_state), listen_event
initialize ==
  /\ pc = "new"
  /\ LET d == load_persistance_file(file)
     IN  IF ~args.has_heat_switch \/ ~args.has_temp_sensor
         THEN /\ data' = d
              /\ pc' = "running"
              /\ mqtt_listening' = TRUE
              /\ last' = Step("initialize", <<>>, 0, FALSE, FALSE)
              /\ UNCHANGED <<sensor_data, current_action, publish_timer,
                             timers, listen_handlers, topic_base, switch,
                             retry_timers, subscribed>>
         ELSE /\ listen_handlers' = register_listeners(listen_handlers)
              /\ retry_timers' = IF RetryNeeded(listen_handlers')
                                 THEN retry_timers + 1 ELSE retry_timers
              /\ topic_base' = <<TOPIC_PREFIX, args.name>>
              /\ subscribed' = TRUE
              /\ EvalAndPublish("initialize", d, FALSE, timers,
                                <<Call("mqtt/publish", "config"),
                                  Call("mqtt/subscribe", "#")>>)
              /\ pc' = IF last'.raised THEN "failed" ELSE "running"
              /\ mqtt_listening' = ~last'.raised
  /\ UNCHANGED <<args, file, exists, reading, elapsed, faulty>>

(***************************************************************************)
(* Inbound MQTT messages                                                   *)
(***************************************************************************)
Event(prefix, device, suffix, payload) ==
  [topic |-> <<prefix, device, suffix>>, payload |-> payload]

TempTopics == {"set_target_temp", "set_high_temp", "set_low_temp"}
TOPIC_HANDLERS == TempTopics \cup {"set_power", "set_mode"}

\* the messages the broker delivers
Events ==
       {Event(TOPIC_PREFIX, "hall", "set_target_temp", p) : p \in {"19.0", "warm"}}
  \cup {Event(TOPIC_PREFIX, "hall", "set_high_temp", "warm"),
        Event(TOPIC_PREFIX, "hall", "set_low_temp", "19.0")}
  \cup {Event(TOPIC_PREFIX, "hall", "set_mode", p) : p \in {"off", "heat", "auto"}}
  \cup {Event(TOPIC_PREFIX, "hall", "set_power", "ON")}
  \cup {Event(TOPIC_PREFIX, "hall", t, "{}") : t \in {"state", "attributes", "reboot"}}
  \cup {Event(TOPIC_PREFIX, "attic", "set_mode", "heat"),
        Event("zigbee2mqtt", "hall", "set_mode", "heat")}

\* handle_set_temp: temp_type is the topic with base and "set_" removed
TempType(suffix) ==
  CASE suffix = "set_target_temp" -> "target_temp"
    [] suffix = "set_high_temp" -> "high_temp"
    [] suffix = "set_low_temp" -> "low_temp"

handle_set_temp(d, event) ==
  [d EXCEPT ![TempType(event.topic[3])] = Str(event.payload)]

handle_set_mode(d, event) == [d EXCEPT !["mode"] = Str(event.payload)]

handle_set_power(d, event) == d

\* Routed without the test for this instance's base
Routed_AnyDevice(event) ==
  /\ event.topic[1] = TOPIC_PREFIX
  /\ event.topic[3] \in TOPIC_HANDLERS

\* the topic is under this instance's base and names a handler
Routed(event) ==
  /\ event.topic[1] = TOPIC_PREFIX
  /\ <<event.topic[1], event.topic[2]>> = topic_base
  /\ event.topic[3] # "state"
  /\ event.topic[3] \in TOPIC_HANDLERS

handle_mqtt_message(event) ==
  /\ mqtt_listening
  /\ IF event.topic[1] = TOPIC_PREFIX /\ topic_base = <<>>
     THEN \* self.topic_base was never set: AttributeError
          /\ last' = Step("handle_mqtt_message", <<>>, 0, FALSE, TRUE)
          /\ UNCHANGED <<data, sensor_data, current_action, publish_timer,
                         timers, switch>>
     ELSE IF ~Routed(event)
     THEN /\ last' = Step("handle_mqtt_message", <<>>, 0, FALSE, FALSE)
          /\ UNCHANGED <<data, sensor_data, current_action, publish_timer,
                         timers, switch>>
     ELSE LET suffix == event.topic[3]
              d == IF suffix \in TempTopics THEN handle_set_temp(data, event)
                   ELSE IF suffix = "set_mode" THEN handle_set_mode(data, event)
                   ELSE handle_set_power(data, event)
          IN  EvalAndPublish("handle_mqtt_message", d, suffix \in TempTopics,
                             timers, <<>>)
  /\ UNCHANGED <<pc, args, file, listen_handlers, topic_base, mqtt_listening,
                 retry_timers, subscribed, exists, reading, elapsed, faulty>>

(***************************************************************************)
(* Timers and sensor events                                                *)
(***************************************************************************)
\* the host fires the watchdog timer h: force_eval_and_publish
force_eval_and_publish(h) ==
  /\ h \in timers
  /\ EvalAndPublish("force_eval_and_publish", data, FALSE, timers \ {h}, <<>>)
  /\ UNCHANGED <<pc, args, file, listen_handlers, topic_base, mqtt_listening,
                 retry_timers, subscribed, exists, reading, elapsed, faulty>>

\* the host records a new value for the reference ref
HostUpdate(ref, text) ==
  /\ ref.entity \in exists
  /\ reading[ref] # text
  /\ reading' = [reading EXCEPT ![ref] = text]
  /\ elapsed' = [elapsed EXCEPT ![ref.entity] = 0]

\* listen_state on the entity was registered for this attribute
Listened(ref) ==
  /\ ref.entity \in DOMAIN listen_handlers
  /\ listen_handlers[ref.entity] = ref.attribute

\* a listened-to sensor changes: the host calls handle_state_change
handle_state_change(ref, text) ==
  /\ Listened(ref)
  /\ HostUpdate(ref, text)
  /\ EvalAndPublish("handle_state_change", data, FALSE, timers, <<>>)
  /\ UNCHANGED <<pc, args, file, listen_handlers, topic_base, mqtt_listening,
                 retry_timers, subscribed, exists, faulty>>

\* time passes without any sensor update
Tick ==
  /\ \A e \in exists : elapsed[e] + ClockStep <= MaxElapsed
  /\ exists # {}
  /\ elapsed' = [e \in DOMAIN elapsed |->
                   IF e \in exists THEN elapsed[e] + ClockStep ELSE elapsed[e]]
  /\ last' = Step("host", <<>>, 0, FALSE, FALSE)
  /\ UNCHANGED <<progVars, exists, reading, switch, faulty>>

Next ==
  \/ initialize
  \/ \E event \in Events : handle_mqtt_message(event)
  \/ \E h \in timers : force_eval_and_publish(h)
  \/ \E ref \in Range(temp_sensors), text \in Readings :
       handle_state_change(ref, text)
  \/ Tick

Spec == Init /\ [][Next]_vars

(***************************************************************************)
(* The watchdog explored with the host's scheduler: startup runs, time     *)
(* passes while it can, and a pending timer is fired                       *)
(***************************************************************************)
StaleEvents ==
       {Event(TOPIC_PREFIX, "hall", "set_target_temp", p) : p \in {"19.0", "warm"}}
  \cup {Event(TOPIC_PREFIX, "hall", "set_mode", p) : p \in {"off", "heat"}}
StaleReadings == {"17.0", "19.0"}

NextStale ==
  \/ initialize
  \/ \E event \in StaleEvents : handle_mqtt_message(event)
  \/ \E h \in timers : force_eval_and_publish(h)
  \/ \E ref \in Range(temp_sensors), text \in StaleReadings :
       handle_state_change(ref, text)
  \/ Tick

SpecStale ==
  /\ Init
  /\ [][NextStale]_vars
  /\ WF_vars(initialize)
  /\ WF_vars(Tick)
  /\ WF_vars(\E h \in timers : force_eval_and_publish(h))

(***************************************************************************)
(* The aggregation explored on its own: initialize runs its first          *)
(* evaluation against every combination of sensor readings and ages        *)
(***************************************************************************)
AggReadings == {"17.0", "18.4", "unavailable"}
AggElapsed == {d * SECONDS_PER_DAY + x : d \in 0..MaxDays, x \in {30 * 60, 40 * 60}}

InitAgg ==
  /\ pc = "new"
  /\ args \in AggConfigs
  /\ file = HeatFile
  /\ data = NoFields
  /\ sensor_data = [current_temperature |-> 0, valid_sensors |-> 0,
                    max_age |-> 0, sensor_data |-> NoStatus]
  /\ current_action = "unset"
  /\ publish_timer = 0
  /\ timers = {}
  /\ listen_handlers = NoHandlers
  /\ topic_base = <<>>
  /\ mqtt_listening = FALSE
  /\ exists \in SUBSET EntitiesOf(args)
  /\ reading \in [Range(args.temp_sensor) -> AggReadings]
  /\ elapsed \in [EntitiesOf(args) -> AggElapsed]
  /\ \A e \in EntitiesOf(args) \ exists : elapsed[e] = 30 * 60
  /\ switch \in [Range(args.heat_switch) -> {"on", "off"}]
  /\ retry_timers = 0
  /\ subscribed = FALSE
  /\ faulty = {}
  /\ last = Step("construct", <<>>, 0, FALSE, FALSE)

NextAgg == initialize

SpecAgg == InitAgg /\ [][NextAgg]_vars

(***************************************************************************)
(* The life cycle: startup with missing configuration fields, missing      *)
(* entities and every kind of persistence file, the registration retry,    *)
(* the daily save and shutdown                                             *)
(***************************************************************************)
LifeConfigs ==
  { Config(<<"switch.a">>, <<Ref("sensor.a", "None")>>),
    Config(<<"switch.a">>, <<Ref("sensor.a", "None"), Ref("sensor.b", "temp")>>),
    Config(<<"switch.a">>, <<Ref("sensor.a", "temp"), Ref("sensor.a", "floor")>>),
    [Config(<<"switch.a">>, <<Ref("sensor.a", "None")>>)
       EXCEPT !.has_heat_switch = FALSE],
    [Config(<<"switch.a">>, <<Ref("sensor.a", "None")>>)
       EXCEPT !.has_temp_sensor = FALSE] }

LifeEvents ==
       {Event(TOPIC_PREFIX, "hall", "set_target_temp", p) : p \in {"19.0", "warm"}}
  \cup {Event(TOPIC_PREFIX, "hall", "set_mode", p) : p \in {"off", "heat"}}

\* the host creates an entity that did not exist
EntityAppears(e) ==
  /\ e \notin exists
  /\ exists' = exists \cup {e}
  /\ elapsed' = [elapsed EXCEPT ![e] = 0]
  /\ last' = Step("host", <<>>, 0, FALSE, FALSE)
  /\ UNCHANGED <<progVars, reading, switch, faulty>>

\* the host fires a register_listeners timer.  It calls a timer's callback
\* with the timer's kwargs, the argument force_eval_and_publish(self, kwargs)
\* and save_persistance_file(self, kwargs=None) take; register_listeners(self)
\* takes none, so the call raises TypeError before the body runs: nothing is
\* registered and no timer is scheduled again
register_listeners_timer ==
  /\ retry_timers > 0
  /\ retry_timers' = retry_timers - 1
  /\ last' = Step("register_listeners", <<>>, 0, FALSE, TRUE)
  /\ UNCHANGED <<pc, args, file, data, sensor_data, current_action,
                 publish_timer, timers, listen_handlers, topic_base,
                 mqtt_listening, subscribed, hostVars>>

\* the host fires the run_every timer: save_persistance_file(kwargs)
save_persistance_file_timer ==
  /\ pc = "running"
  /\ file' = save_persistance_file(data)
  /\ last' = Step("save_persistance_file", <<>>, 0, FALSE, FALSE)
  /\ UNCHANGED <<pc, args, data, sensor_data, current_action, publish_timer,
                 timers, listen_handlers, topic_base, mqtt_listening,
                 retry_timers, subscribed, hostVars>>

\* terminate: remove_timer(self.publish_timer), unsubscribe inside try
\* (reading self.topic_subscription raises AttributeError when
\* parse_and_register returned early; the host's call may fail: either is
\* caught), then save_persistance_file.  last.raised records that the
\* unsubscribe attempt raised
terminate ==
  /\ pc = "running"
  /\ timers' = remove_timer(publish_timer, timers)
  /\ \E ok \in BOOLEAN :
       IF topic_base = <<>>
       THEN /\ ok = FALSE
            /\ UNCHANGED subscribed
            /\ last' = Step("terminate", <<>>, 0, FALSE, TRUE)
       ELSE /\ subscribed' = (subscribed /\ ~ok)
            /\ last' = Step("terminate", <<Call("mqtt/unsubscribe", "#")>>,
                            0, FALSE, ~ok)
  /\ file' = save_persistance_file(data)
  /\ pc' = "terminated"
  /\ UNCHANGED <<args, data, sensor_data, current_action, publish_timer,
                 listen_handlers, topic_base, mqtt_listening, retry_timers,
                 hostVars>>

InitLife ==
  /\ pc = "new"
  /\ args \in LifeConfigs
  /\ file \in LifeFiles
  /\ data = NoFields
  /\ sensor_data = [current_temperature |-> 0, valid_sensors |-> 0,
                    max_age |-> 0, sensor_data |-> NoStatus]
  /\ current_action = "unset"
  /\ publish_timer = 0
  /\ timers = {}
  /\ listen_handlers = NoHandlers
  /\ topic_base = <<>>
  /\ mqtt_listening = FALSE
  /\ exists \in SUBSET EntitiesOf(args)
  /\ reading = [r \in Range(args.temp_sensor) |-> "18.0"]
  /\ elapsed = [e \in EntitiesOf(args) |-> 0]
  /\ switch = [s \in Range(args.heat_switch) |-> "off"]
  /\ retry_timers = 0
  /\ subscribed = FALSE
  /\ faulty = {}
  /\ last = Step("construct", <<>>, 0, FALSE, FALSE)

NextLife ==
  \/ initialize
  \/ \E e \in EntitiesOf(args) : EntityAppears(e)
  \/ pc # "terminated" /\ register_listeners_timer
  \/ \E event \in LifeEvents : pc = "running" /\ handle_mqtt_message(event)
  \/ \E h \in timers : pc = "running" /\ force_eval_and_publish(h)
  \/ save_persistance_file_timer
  \/ terminate

SpecLife == InitLife /\ [][NextLife]_vars

(***************************************************************************)
(* Host failures: service calls that raise for some actuators, sensors     *)
(* that are missing, lack the attribute, have no readable value or no      *)
(* readable last_updated timestamp                                          *)
(***************************************************************************)
FaultConfigs ==
  { Config(<<"switch.a", "switch.b">>,
           <<Ref("sensor.a", "None"), Ref("sensor.b", "temp")>>) }

\* get_state returns None for an attribute the entity does not have
FaultReadings == {"17.0", "unavailable", "None"}

\* seconds since last_updated; None when the timestamp cannot be read
FaultElapsed == {0, 40 * 60, None}

FaultEvents ==
  {Event(TOPIC_PREFIX, "hall", "set_mode", p) : p \in {"off", "heat"}}

InitFault ==
  /\ pc = "new"
  /\ args \in FaultConfigs
  /\ file \in Files
  /\ data = NoFields
  /\ sensor_data = [current_temperature |-> 0, valid_sensors |-> 0,
                    max_age |-> 0, sensor_data |-> NoStatus]
  /\ current_action = "unset"
  /\ publish_timer = 0
  /\ timers = {}
  /\ listen_handlers = NoHandlers
  /\ topic_base = <<>>
  /\ mqtt_listening = FALSE
  /\ exists \in SUBSET EntitiesOf(args)
  /\ reading \in [Range(args.temp_sensor) -> FaultReadings]
  /\ elapsed \in [EntitiesOf(args) -> FaultElapsed]
  /\ \A e \in EntitiesOf(args) \ exists : elapsed[e] = 0
  /\ switch = [s \in Range(args.heat_switch) |-> "on"]
  /\ retry_timers = 0
  /\ subscribed = FALSE
  /\ faulty \in SUBSET Range(args.heat_switch)
  /\ last = Step("construct", <<>>, 0, FALSE, FALSE)

NextFault ==
  \/ initialize
  \/ \E event \in FaultEvents : handle_mqtt_message(event)
  \/ \E h \in timers : force_eval_and_publish(h)

SpecFault == InitFault /\ [][NextFault]_vars

(***************************************************************************)
(* Properties                                                              *)
(***************************************************************************)
AllSwitches(state) == \A s \in Range(radiator_switches) : switch[s] = state
Commanded(state) ==
  \A s \in Range(radiator_switches) :
    Call("switch/turn_" \o state, s) \in Range(last.calls)
SwitchCalls ==
  {c \in Range(last.calls) : c.service \in {"switch/turn_on", "switch/turn_off"}}

\* C4: staleness cutoff.  After an evaluation, every existing sensor whose
\* last update is more than max_age seconds ago (however long ago) has
\* valid = false; when it is the only sensor, valid_sensors is 0 and the
\* actuators are forced off.
C4_StaleIsInvalid ==
  pc # "new" =>
    \A ref \in Range(temp_sensors) :
      (ref.entity \in exists /\ elapsed[ref.entity] > max_age) =>
        /\ ~sensor_data.sensor_data[ref.entity].valid
        /\ Len(temp_sensors) = 1 =>
             /\ sensor_data.valid_sensors = 0
             /\ AllSwitches("off")
             /\ current_action = "off"

RECURSIVE SumValues(_, _)
SumValues(status, E) ==
  IF E = {} THEN 0
  ELSE LET e == CHOOSE x \in E : TRUE
       IN  status[e].value + SumValues(status, E \ {e})

\* C5: aggregation.  After an evaluation, valid_sensors is the number of
\* sensors whose status has valid = true, and current_temperature is the
\* mean of their values rounded to one decimal, 0.0 when there are none.
C5_MeanOfValid ==
  pc # "new" =>
    LET status == sensor_data.sensor_data
        V == {e \in DOMAIN status : status[e].valid}
    IN  /\ sensor_data.valid_sensors = Cardinality(V)
        /\ sensor_data.current_temperature =
             IF V = {} THEN 0 ELSE RoundDiv(SumValues(status, V), Cardinality(V))

\* the commands of this instance
CommandTopics ==
  {"set_target_temp", "set_high_temp", "set_low_temp", "set_mode", "set_power"}
IsCommand(event) ==
  /\ event.topic[1] = TOPIC_PREFIX
  /\ event.topic[2] = args.name
  /\ event.topic[3] \in CommandTopics

\* the state after a step shows an evaluation that took the "off" branch
EvaluatedOff ==
  /\ last.evaluations > 0
  /\ data["mode"] = Str("off") \/ sensor_data.valid_sensors = 0
TurnedOff ==
  /\ Commanded("off")
  /\ \A c \in SwitchCalls : c.service = "switch/turn_off"
  /\ AllSwitches("off")
  /\ current_action = "off"

\* C1: every evaluation with mode off, or without a valid sensor, commands
\* every actuator off and sets the action to "off"; a set_mode "off" command
\* runs such an evaluation.
C1_ForcedOff ==
  [][ /\ EvaluatedOff' => TurnedOff'
      /\ handle_mqtt_message(Event(TOPIC_PREFIX, args.name, "set_mode", "off"))
           => (last.evaluations > 0)' /\ TurnedOff' ]_vars

\* a set_mode "off" command has turned the actuators off although the
\* sensor is valid and below the band
C1_Witness ==
  /\ last.op = "handle_mqtt_message"
  /\ data["mode"] = Str("off")
  /\ sensor_data.valid_sensors > 0
  /\ sensor_data.current_temperature = 170
  /\ TurnedOff

\* the state after a step shows an evaluation in heat mode with valid data
\* and a numeric target
EvaluatedHeat ==
  /\ last.evaluations > 0
  /\ data["mode"] = Str("heat")
  /\ sensor_data.valid_sensors > 0
  /\ CanFloat(data["target_temp"].v)
Lowest == Float(data["target_temp"].v) - 4
Highest == Float(data["target_temp"].v) + 4
InsideBand ==
  /\ EvaluatedHeat
  /\ Lowest < sensor_data.current_temperature
  /\ sensor_data.current_temperature < Highest

\* C2 as stated: an evaluation inside the band issues no actuator command
\* and leaves the actuator state and the action label as the previous
\* evaluation left them.
C2_SameDecision ==
  [][ (InsideBand' /\ current_action # "unset") =>
        /\ SwitchCalls' = {}
        /\ switch' = switch
        /\ current_action' = current_action ]_vars

\* C2 as amended: an evaluation inside the band issues no actuator command
\* and leaves every actuator as it was; the action label is "heating" when
\* the first actuator is on and "idle" when it is off, which is the previous
\* label whenever that was "idle" or "heating".
C2_StickyState ==
  [][ InsideBand' =>
        /\ SwitchCalls' = {}
        /\ switch' = switch
        /\ current_action' =
             IF switch[radiator_switches[1]] = "off" THEN "idle" ELSE "heating"
        /\ current_action \in {"idle", "heating"}
             => current_action' = current_action ]_vars

\* a sensor change to a value inside the band, with the actuators on: they
\* stay on, action "heating"
C2_Witness ==
  /\ last.op = "handle_state_change"
  /\ InsideBand
  /\ sensor_data.current_temperature = 180
  /\ SwitchCalls = {}
  /\ AllSwitches("on")
  /\ current_action = "heating"

\* C3: in heat mode with valid data, below the band the actuators are
\* commanded on with action "heating"; at or above its upper limit they are
\* commanded off with action "idle"; exactly at the lower limit no actuator
\* command is issued.
C3_Band ==
  EvaluatedHeat =>
    /\ sensor_data.current_temperature < Lowest =>
         Commanded("on") /\ AllSwitches("on") /\ current_action = "heating"
    /\ sensor_data.current_temperature >= Highest =>
         Commanded("off") /\ AllSwitches("off") /\ current_action = "idle"
    /\ sensor_data.current_temperature = Lowest => SwitchCalls = {}

\* an evaluation exactly at the upper limit has switched the actuators off
C3_Witness ==
  /\ EvaluatedHeat
  /\ sensor_data.current_temperature = Highest
  /\ Commanded("off")
  /\ current_action = "idle"

\* C6: after a successful startup a watchdog timer is pending whenever the
\* instance is idle.
C6_WatchdogPending ==
  (pc = "running" /\ topic_base # <<>>) => publish_timer \in timers

\* C7: at most one watchdog timer is outstanding, the one publish_timer names.
C7_OneWatchdog ==
  /\ Cardinality(timers) <= 1
  /\ timers \subseteq {publish_timer}

\* a publish with a watchdog pending has left exactly one timer
C7_Witness ==
  /\ last.op = "handle_state_change"
  /\ last.published
  /\ Cardinality(timers) = 1

\* the setpoint change a command is to make
FrameOf(event) ==
  IF event.topic[3] \in TempTopics
  THEN data' = [data EXCEPT ![TempType(event.topic[3])] = Str(event.payload)]
  ELSE IF event.topic[3] = "set_mode"
  THEN data' = [data EXCEPT !["mode"] = Str(event.payload)]
  ELSE data' = data

\* C8: each of the five commands changes only its own setpoint field
\* (set_power none) and is followed by a re-evaluation and a publish.
C8_CommandFrame ==
  [][ \A event \in Events :
        (IsCommand(event) /\ handle_mqtt_message(event)) =>
          /\ FrameOf(event)
          /\ last'.evaluations > 0
          /\ last'.published ]_vars

\* C9: a message outside the namespace, on the state topic or on an unknown
\* topic changes nothing: no setpoint change, no evaluation, no host call,
\* no watchdog re-arm.
C9_Ignored ==
  [][ \A event \in Events :
        (~IsCommand(event) /\ handle_mqtt_message(event)) =>
          /\ UNCHANGED <<data, sensor_data, current_action, switch, timers,
                         publish_timer>>
          /\ last'.evaluations = 0
          /\ last'.calls = <<>>
          /\ ~last'.published ]_vars

\* a message was dropped while the instance was running with its watchdog armed
C9_Witness ==
  /\ last.op = "handle_mqtt_message"
  /\ last.evaluations = 0
  /\ ~last.raised
  /\ current_action = "heating"
  /\ publish_timer \in timers

\* C10: no non-numeric value is ever stored in a numeric setpoint field.
C10_NumericSetpoint ==
  \A k \in {"target_temp", "high_temp", "low_temp"} :
    k \in DOMAIN data => CanFloat(data[k].v)

\* C11: shutdown.  When terminate returns, the inbound namespace is unsubscribed
\* (unless the host's unsubscribe call itself failed), no watchdog timer and
\* no registration-retry timer is pending, and the file holds the current
\* setpoint, also when unsubscribing failed.
C11_Shutdown ==
  last.op = "terminate" =>
    /\ ~last.raised => ~subscribed
    /\ timers = {}
    /\ retry_timers = 0
    /\ file = [kind |-> "json",
               content |-> [k \in DOMAIN data |->
                              IF data[k].t = "str"
                              THEN <<Quote, data[k].v, Quote>>
                              ELSE <<data[k].v>>]]

\* every configured sensor entity has a change-listener
AllRegistered == EntitiesOf(args) \subseteq DOMAIN listen_handlers

\* C12: registration retry.  After startup, for every configured list of
\* sensor references, a retry timer is pending as long as some configured
\* sensor has no change-listener, none is pending once every sensor has one,
\* and a retry that ran when every configured entity existed has left every
\* sensor registered.
C12_RetryUntilRegistered ==
  (pc = "running" /\ topic_base # <<>>) =>
    /\ ~AllRegistered => retry_timers > 0
    /\ AllRegistered => retry_timers = 0
    /\ (last.op = "register_listeners" /\ EntitiesOf(args) \subseteq exists)
         => AllRegistered

\* a mandatory field is absent from the configuration
MissingField == ~args.has_heat_switch \/ ~args.has_temp_sensor

\* C13: configuration errors are fatal to setup.  When heat_switch or
\* temp_sensor is absent, or no configured sensor entity exists, no step of
\* the instance, in startup or later, publishes the discovery announcement,
\* subscribes, evaluates, commands an actuator or publishes the state.
C13_ConfigErrorFatal ==
  (MissingField \/ EntitiesOf(args) \cap exists = {}) =>
    /\ ~subscribed
    /\ last.calls = <<>>
    /\ last.evaluations = 0
    /\ ~last.published

\* what the setpoint has to be after loading: for each of the four fields
\* the value the file stores, and the default for a field it does not store
StoredOrDefault(f, k) ==
  IF f.kind = "json" /\ k \in DOMAIN f.content
  THEN IF f.content[k][1] = Quote
       THEN Str(f.content[k][2])
       ELSE Num(NumberText[f.content[k][1]])
  ELSE IF k = "mode" THEN Str("off") ELSE Num("18")

C15_RoundTrip ==
  last.op \in {"save_persistance_file", "terminate"} =>
    /\ file.kind = "json"
    /\ DOMAIN file.content = DOMAIN data
    /\ load_persistance_file(file) = data

\* a save of a setpoint that holds a string payload next to numbers read
\* from a file
C15_Witness ==
  /\ last.op = "save_persistance_file"
  /\ data["target_temp"] = Str("warm")
  /\ data["high_temp"] = Num("19.0")
  /\ data["low_temp"] = Num("18")

\* C16: actuator uniformity.  After every completed evaluation all actuators
\* are in the same state, and the action is "off" when the mode is off or no
\* sensor is valid, otherwise "heating" when they are on and "idle" when
\* they are off.
C16_Uniform ==
  (last.evaluations > 0 /\ ~last.raised) =>
    /\ AllSwitches("on") \/ AllSwitches("off")
    /\ current_action =
         IF data["mode"] = Str("off") \/ sensor_data.valid_sensors = 0
         THEN "off"
         ELSE IF AllSwitches("on") THEN "heating" ELSE "idle"

\* C18: mode domain.  In every state reached through set_mode commands the
\* mode is "off" or "heat", and a step commands an actuator on only when
\* the mode is "heat".
C18_ModeDomain ==
  pc = "running" =>
    /\ data["mode"] \in {Str("off"), Str("heat")}
    /\ (\E c \in SwitchCalls : c.service = "switch/turn_on")
         => data["mode"] = Str("heat")

\* a step of the host's clock or of the watchdog: neither a sensor change
\* nor a command
Quiet == Tick \/ \E h \in timers : force_eval_and_publish(h)

\* C17: stale data turns heating off.  In heat mode, once no sensor change
\* and no command arrives any more, a forced re-evaluation eventually runs
\* with the readings older than max_age and commands every actuator off.
C17_StaleTurnsOff ==
  (<>[][Quiet]_vars /\ <>[](pc = "running" /\ data["mode"] = Str("heat")))
    => <>( /\ last.op = "force_eval_and_publish"
           /\ sensor_data.valid_sensors = 0
           /\ Commanded("off")
           /\ AllSwitches("off") )

\* C19: actuator failure isolation.  When a step drives the actuators and
\* the host call fails for some of them, every configured actuator is still
\* commanded, all with the same state, and the evaluation and the publish
\* after it complete.
C19_ActuatorIsolation ==
  SwitchCalls # {} =>
    /\ Commanded("on") \/ Commanded("off")
    /\ ~last.raised
    /\ last.published

\* what one sensor's status has to be: invalid with a message when the
\* entity is missing, its value or attribute cannot be read as a number, its
\* timestamp cannot be read or is older than max_age; valid otherwise
Healthy(ref) ==
  /\ ref.entity \in exists
  /\ elapsed[ref.entity] # None
  /\ elapsed[ref.entity] <= max_age
  /\ reading[ref] \in {"17.0", "17.6", "18.0", "18.4", "19.0"}

\* C20: sensor failure isolation.  With working actuators, after every
\* evaluation the reading is
\* complete: there is a status entry for every configured sensor, a sensor
\* the host fails to read is invalid with a message, every other sensor is
\* valid, and valid_sensors counts the valid ones.
C20_SensorIsolation ==
  (pc # "new" /\ faulty = {}) =>
    /\ ~last.raised
    /\ \A ref \in Range(temp_sensors) :
         /\ ref.entity \in DOMAIN sensor_data.sensor_data
         /\ sensor_data.sensor_data[ref.entity].valid = Healthy(ref)
         /\ ~Healthy(ref) => sensor_data.sensor_data[ref.entity].message # "None"
    /\ sensor_data.valid_sensors =
         Cardinality({ref \in Range(temp_sensors) : Healthy(ref)})

====
